---- MODULE Spec2Model ----
(***************************************************************************)
(* app.py: a Streamlit page.  Streamlit executes the whole script from its *)
(* first line on every interaction with the page (page load, a widget      *)
(* edit, a button click).  One such execution is a "run".  Widget values   *)
(* live in the session (the widgets are keyed) and survive between runs;   *)
(* every Python name of the script is rebound in each run.                 *)
(*                                                                         *)
(* Numerical feature values are in tenths (BMI 24.0 is 240).  Class        *)
(* probabilities are multiples of 1/PScale.                                *)
(***************************************************************************)
EXTENDS Integers, Sequences, FiniteSets, TLC

\* ---------------------------------------------------------------- bounds
\* Script executions explored in one behaviour.
MaxRuns == 3
\* Probability grid: predict_proba returns k/(2*PHalf) for k in 0..2*PHalf;
\* k = PHalf is exactly 0.5.
PHalf == 1

PScale == 2 * PHalf

\* ------------------------------------------------- feature_ranges (27-76)
\* A Python dict keeps insertion order: the schema is this sequence.
feature_ranges ==
  << [name |-> "BMI", type |-> "numerical", min |-> 100, max |-> 500,
      default |-> 240, options |-> <<>>],
     [name |-> "Biologics_History", type |-> "categorical", min |-> 0, max |-> 0,
      default |-> 0, options |-> <<0, 1>>],
     [name |-> "Baseline_PASI", type |-> "numerical", min |-> 0, max |-> 720,
      default |-> 150, options |-> <<>>],
     [name |-> "Hemoglobin", type |-> "numerical", min |-> 500, max |-> 2000,
      default |-> 1300, options |-> <<>>],
     [name |-> "ALP", type |-> "numerical", min |-> 100, max |-> 3000,
      default |-> 700, options |-> <<>>],
     [name |-> "IBil", type |-> "numerical", min |-> 0, max |-> 500,
      default |-> 100, options |-> <<>>],
     [name |-> "SII", type |-> "numerical", min |-> 0, max |-> 50000,
      default |-> 5000, options |-> <<>> ] >>

NumFeatures == Len(feature_ranges)

FeatureNames == { feature_ranges[i].name : i \in 1..NumFeatures }

Range(s) == { s[i] : i \in 1..Len(s) }

\* feature_ranges[feature]: the properties of the entry called feature.
SchemaOf(feature) ==
  feature_ranges[CHOOSE i \in 1..NumFeatures : feature_ranges[i].name = feature]

\* A value the schema accepts for the feature.
WithinSchema(feature, value) ==
  LET properties == SchemaOf(feature) IN
  IF properties.type = "numerical"
    THEN properties.min <= value /\ value <= properties.max
    ELSE value \in Range(properties.options)

\* ------------------------------------------------------ widgets (90-106)
\* What the user may type into, or pick in, the widget of a feature: a value
\* inside the declared range and one just outside it (BMI 9.9, option 2).
Entries(feature) ==
  LET properties == SchemaOf(feature) IN
  IF properties.type = "numerical"
    THEN { properties.min - 1, properties.max }
    ELSE { 1, 2 }

\* Variant of number_input: the bounds are not enforced, whatever is typed
\* becomes the widget's value.
number_input_unbounded(min_value, max_value, current, entry) == { entry }

\* st.sidebar.number_input(min_value, max_value, value, key): the values the
\* widget may hold after the user entered `entry` while it held `current`.
\* The widget is bounded by min_value and max_value: an entry outside them
\* is not accepted; depending on the Streamlit version the widget keeps its
\* value or moves to the nearest bound.
number_input(min_value, max_value, current, entry) ==
  IF min_value <= entry /\ entry <= max_value
    THEN { entry }
    ELSE { current, IF entry < min_value THEN min_value ELSE max_value }

\* st.sidebar.selectbox(options, index, key): only a listed option can be
\* picked; anything else leaves the selection as it is.
selectbox(options, current, entry) ==
  IF entry \in Range(options) THEN { entry } ELSE { current }

\* The widget of a feature, chosen by the schema's type tag (91, 99).
Widget(feature, current, entry) ==
  LET properties == SchemaOf(feature) IN
  IF properties.type = "numerical"
    THEN number_input(properties.min, properties.max, current, entry)
    ELSE selectbox(properties.options, current, entry)

\* Widget values of a fresh session: each widget's default (96, 103).
Defaults == [ feature \in FeatureNames |-> SchemaOf(feature).default ]

\* ------------------------------------------------------------------ state
VARIABLES
  session,              \* the keyed widgets' values, by feature name
  runs,                 \* script executions started so far
  entry,                \* the user's last widget entry: <<feature, value>> or <<>>
  pc,                   \* position of the running script; "idle" between runs
  clicked,              \* what st.button returns in this run
  screen,               \* the elements rendered on the page, in order
  outcome,              \* how the last run ended
  model,                \* the loaded Pipeline: its steps, <<>> while unbound
  user_inputs,          \* the dict filled by the loop, as <<name, value>> pairs
  input_df,             \* the one-row DataFrame: its columns, in order
  predicted_proba,      \* <<P(class 0), P(class 1)>>, numerators over PScale
  probability_responder,\* predicted_proba[1] * 100, numerator over PScale
  result_text,
  color_code,
  advice,
  rf_classifier,
  scaler,
  input_scaled,
  explainer,
  shap_values_raw,
  shap_values,
  base_value,
  e,                    \* the exception caught by `except Exception as e`
  calls,                \* the library calls of this run, in order
  loads,                \* joblib.load calls that returned a model, all runs
  failedLoads,          \* joblib.load calls that raised, all runs
  reports               \* errors shown by the except handler, all runs

env == << session, runs, entry >>

control == << pc, clicked, screen, outcome >>

names == << model, user_inputs, input_df, predicted_proba, probability_responder,
            result_text, color_code, advice, rf_classifier, scaler, input_scaled,
            explainer, shap_values_raw, shap_values, base_value, e >>

history == << calls, loads, failedLoads, reports >>

vars == << env, control, names, history >>

\* Python indexing is 0-based.
Idx(seq, i) == seq[i + 1]

\* A name the run has not bound yet.
NullStep == [name |-> "", id |-> 0, data_min |-> <<>>]

NullExplainer == [model |-> NullStep, expected_value |-> <<>>]

Element(kind, data) == [kind |-> kind, data |-> data]

\* A library call that returned: the function, the id of the object it ran
\* on, its argument and what it returned.
Call(fn, by, arg, ret) ==
  [fn |-> fn, by |-> by, arg |-> arg, ret |-> ret, raised |-> ""]

\* A library call that raised an exception with the given message.
Raise(fn, by, arg, detail) ==
  [fn |-> fn, by |-> by, arg |-> arg, ret |-> <<>>, raised |-> detail]

Shown(kind) == \E k \in 1..Len(screen) : screen[k].kind = kind

\* Messages a library call may raise with.
ExcDetails == { "X has 6 features, but 7 are expected", "feature names mismatch" }

Init ==
  /\ session = Defaults
  /\ runs = 0
  /\ entry = <<>>
  /\ pc = "idle"
  /\ clicked = FALSE
  /\ screen = <<>>
  /\ outcome = "none"
  /\ model = <<>>
  /\ user_inputs = <<>>
  /\ input_df = <<>>
  /\ predicted_proba = <<>>
  /\ probability_responder = -1
  /\ result_text = ""
  /\ color_code = ""
  /\ advice = ""
  /\ rf_classifier = NullStep
  /\ scaler = NullStep
  /\ input_scaled = <<>>
  /\ explainer = NullExplainer
  /\ shap_values_raw = [isList |-> FALSE, data |-> <<>>]
  /\ shap_values = <<>>
  /\ base_value = -1
  /\ e = ""
  /\ calls = <<>>
  /\ loads = 0
  /\ failedLoads = 0
  /\ reports = 0

\* ------------------------------------------------- the page between runs
\* Streamlit starts the script at line 1 with every name unbound and an
\* empty page; button is what st.button will return in this run (118).
StartRun(button) ==
  /\ runs' = runs + 1
  /\ pc' = "load"
  /\ clicked' = button
  /\ screen' = <<>>
  /\ outcome' = "running"
  /\ model' = <<>>
  /\ user_inputs' = <<>>
  /\ input_df' = <<>>
  /\ predicted_proba' = <<>>
  /\ probability_responder' = -1
  /\ result_text' = ""
  /\ color_code' = ""
  /\ advice' = ""
  /\ rf_classifier' = NullStep
  /\ scaler' = NullStep
  /\ input_scaled' = <<>>
  /\ explainer' = NullExplainer
  /\ shap_values_raw' = [isList |-> FALSE, data |-> <<>>]
  /\ shap_values' = <<>>
  /\ base_value' = -1
  /\ e' = ""
  /\ calls' = <<>>
  /\ UNCHANGED << loads, failedLoads, reports >>

\* The browser opens (or reloads) the page: a new session, whose widgets
\* hold their defaults.
OpenPage ==
  /\ pc = "idle"
  /\ runs < MaxRuns
  /\ session' = Defaults
  /\ entry' = <<>>
  /\ StartRun(FALSE)

\* The user enters a value in a sidebar widget (92-105).  The widget decides
\* what it holds afterwards; a changed value reruns the script.
EditWidget ==
  /\ pc = "idle"
  /\ runs < MaxRuns
  /\ Shown("sidebar")
  /\ \E feature \in FeatureNames : \E typed \in Entries(feature) :
       \E value \in Widget(feature, session[feature], typed) :
         /\ entry' = << feature, typed >>
         /\ session' = [session EXCEPT ![feature] = value]
         /\ IF value # session[feature]
              THEN StartRun(FALSE)
              ELSE UNCHANGED << runs, control, names, history >>

\* The user clicks the Predict button (118).
ClickPredict ==
  /\ pc = "idle"
  /\ runs < MaxRuns
  /\ Shown("button")
  /\ UNCHANGED << session, entry >>
  /\ StartRun(TRUE)

\* ------------------------------------------------ 1. model load (14-19)
\* What joblib.load finds at 'rf_model.pkl' when a run executes line 16 is an
\* input of that run: a loadable pipeline, no file, or a damaged file (the
\* file can be put in place between two runs, as the message of line 18
\* asks).
\* joblib.load returns a freshly unpickled Pipeline: a scaler step and a
\* classifier step, new objects on every call (id).  The scaler's fitted
\* minima are part of the file; here they are the schema's minima.
Unpickle(n) ==
  << [name |-> "scaler", id |-> 2 * n + 1,
      data_min |-> [ j \in 1..NumFeatures |-> feature_ranges[j].min ]],
     [name |-> "classifier", id |-> 2 * n + 2, data_min |-> <<>>] >>

LoadModel ==
  /\ pc = "load"
  /\ model' = Unpickle(loads)
  /\ loads' = loads + 1
  /\ calls' = Append(calls, Call("joblib.load", 0, <<>>, <<>>))
  /\ pc' = "inputs"
  /\ UNCHANGED << env, clicked, screen, outcome, user_inputs, input_df,
                  predicted_proba, probability_responder, result_text, color_code,
                  advice, rf_classifier, scaler, input_scaled, explainer,
                  shap_values_raw, shap_values, base_value, e, failedLoads, reports >>

\* Variant of LoadModelNotFound: the error is shown but st.stop() is left
\* out, so the script goes on to the sidebar.
LoadModelNotFound_NoStop ==
  /\ pc = "load"
  /\ failedLoads' = failedLoads + 1
  /\ calls' = Append(calls, Raise("joblib.load", 0, <<>>, "FileNotFoundError"))
  /\ screen' = Append(screen, Element("error", << "model file 'rf.pkl' not found" >>))
  /\ pc' = "inputs"
  /\ UNCHANGED << env, clicked, outcome, names, loads, reports >>

\* FileNotFoundError: st.error, then st.stop() ends this run (17-19).
LoadModelNotFound ==
  /\ pc = "load"
  /\ failedLoads' = failedLoads + 1
  /\ calls' = Append(calls, Raise("joblib.load", 0, <<>>, "FileNotFoundError"))
  /\ screen' = Append(screen, Element("error", << "model file 'rf.pkl' not found" >>))
  /\ outcome' = "stopped"
  /\ pc' = "idle"
  /\ UNCHANGED << env, clicked, names, loads, reports >>

\* Any other exception of joblib.load (a damaged pickle) is not caught by
\* `except FileNotFoundError`: Streamlit shows the exception and ends the run.
LoadModelCorrupt ==
  /\ pc = "load"
  /\ failedLoads' = failedLoads + 1
  /\ calls' = Append(calls, Raise("joblib.load", 0, <<>>, "UnpicklingError"))
  /\ screen' = Append(screen, Element("exception", << "UnpicklingError" >>))
  /\ outcome' = "uncaught"
  /\ pc' = "idle"
  /\ UNCHANGED << env, clicked, names, loads, reports >>

\* --------------------------------------------- 3. sidebar inputs (81-113)
\* Variant of InputsLoop: the entries are gathered in the opposite order.
RECURSIVE InputsLoop_Reversed(_)
InputsLoop_Reversed(i) ==
  IF i = 0
    THEN <<>>
    ELSE LET feature == feature_ranges[i].name
         IN  << << feature, session[feature] >> >> \o InputsLoop_Reversed(i - 1)

\* The loop of lines 90-106 over feature_ranges.items(), up to entry i:
\* each widget's value is stored under its feature's name, in dict order.
RECURSIVE InputsLoop(_)
InputsLoop(i) ==
  IF i = 0
    THEN <<>>
    ELSE LET feature == feature_ranges[i].name
         IN  Append(InputsLoop(i - 1), << feature, session[feature] >>)

\* pd.DataFrame([user_inputs]): one row, the dict's keys as columns, in the
\* dict's order (109).
DataFrame(rows) == rows[1]

Columns(df) == [ j \in 1..Len(df) |-> df[j][1] ]

\* df.iloc[0]: the values of the first row, by column.
Row0(df) == [ j \in 1..Len(df) |-> df[j][2] ]

CollectInputs ==
  /\ pc = "inputs"
  /\ user_inputs' = InputsLoop(NumFeatures)
  /\ input_df' = DataFrame(<< user_inputs' >>)
  /\ screen' = screen \o << Element("title", <<>>),
                            Element("sidebar", Columns(user_inputs')),
                            Element("dataframe", input_df') >>
  /\ pc' = "button"
  /\ UNCHANGED << env, clicked, outcome, model, predicted_proba,
                  probability_responder, result_text, color_code, advice,
                  rf_classifier, scaler, input_scaled, explainer, shap_values_raw,
                  shap_values, base_value, e, history >>

\* -------------------------------------------------- the button (118-119)
\* st.button returned False: the script ends after drawing the button.
ButtonIdle ==
  /\ pc = "button"
  /\ ~clicked
  /\ screen' = Append(screen, Element("button", <<>>))
  /\ outcome' = "completed"
  /\ pc' = "idle"
  /\ UNCHANGED << env, clicked, names, history >>

\* st.button returned True: the predict branch starts (119).
ButtonClicked ==
  /\ pc = "button"
  /\ clicked
  /\ screen' = screen \o << Element("button", <<>>), Element("subheader", << 2 >>) >>
  /\ pc' = "predict"
  /\ UNCHANGED << env, clicked, outcome, names, history >>

\* ------------------------------------------------ step A: predict (122-135)
\* scaler.transform(X): each column, by position, against the fitted minimum.
Transform(step, df) == [ j \in 1..Len(df) |-> df[j][2] - step.data_min[j] ]

\* Pipeline.predict_proba(X): X goes through every step but the last, and the
\* last step classifies it.  The log of the calls it makes.
PipelineCalls(pipeline, df, proba) ==
  << Call("Pipeline.predict_proba", 0, df, proba),
     Call("transform", pipeline[1].id, df, Transform(pipeline[1], df)),
     Call("predict_proba", pipeline[Len(pipeline)].id,
          Transform(pipeline[1], df), proba) >>

\* model.predict_proba(input_df)[0] returned (124).
Predict ==
  /\ pc = "predict"
  /\ \E p1 \in 0..PScale :
       /\ predicted_proba' = << PScale - p1, p1 >>
       /\ calls' = calls \o PipelineCalls(model, input_df, predicted_proba')
  /\ pc' = "result"
  /\ UNCHANGED << env, clicked, screen, outcome, model, user_inputs, input_df,
                  probability_responder, result_text, color_code, advice,
                  rf_classifier, scaler, input_scaled, explainer, shap_values_raw,
                  shap_values, base_value, e, loads, failedLoads,
                  reports >>

\* model.predict_proba(input_df) raised (124): control goes to line 191.
PredictRaises ==
  /\ pc = "predict"
  /\ \E detail \in ExcDetails :
       /\ e' = detail
       /\ calls' = Append(calls, Raise("Pipeline.predict_proba", 0, input_df, detail))
  /\ pc' = "except"
  /\ UNCHANGED << env, clicked, screen, outcome, model, user_inputs, input_df,
                  predicted_proba, probability_responder, result_text, color_code,
                  advice, rf_classifier, scaler, input_scaled, explainer,
                  shap_values_raw, shap_values, base_value, loads, failedLoads, reports >>

\* Variant of Verdict: `>=` in place of `>`.
VerdictAtLeast(percent) ==
  IF percent >= 50 * PScale
    THEN [result_text |-> "Responder", color_code |-> "#2ca02c",
          advice |-> "likely to respond well"]
    ELSE [result_text |-> "Non-Responder", color_code |-> "#d62728",
          advice |-> "may respond poorly, watch risk factors"]

\* Lines 128-135, on a percentage given as numerator over PScale:
\* `probability_responder > 50`.
Verdict(percent) ==
  IF percent > 50 * PScale
    THEN [result_text |-> "Responder", color_code |-> "#2ca02c",
          advice |-> "likely to respond well"]
    ELSE [result_text |-> "Non-Responder", color_code |-> "#d62728",
          advice |-> "may respond poorly, watch risk factors"]

\* f"{probability_responder:.2f}": hundredths of a percent, rounded to
\* nearest, ties to even (138).
Format2f(percent) ==
  LET n == percent * 100
      q == n \div PScale
      r == n % PScale
  IN  IF 2 * r > PScale \/ (2 * r = PScale /\ q % 2 = 1) THEN q + 1 ELSE q

\* Variant of ShowResult: the run ends once the result is shown; the
\* explanation is left to a later request.
ShowResult_EndsRun ==
  /\ pc = "result"
  /\ probability_responder' = Idx(predicted_proba, 1) * 100
  /\ LET v == Verdict(probability_responder') IN
       /\ result_text' = v.result_text
       /\ color_code' = v.color_code
       /\ advice' = v.advice
  /\ screen' = screen \o
       << Element("result", << Format2f(probability_responder'), result_text',
                               color_code' >>),
          Element("advice", << advice' >>) >>
  /\ outcome' = "completed"
  /\ pc' = "idle"
  /\ UNCHANGED << env, clicked, model, user_inputs, input_df, predicted_proba,
                  rf_classifier, scaler, input_scaled, explainer, shap_values_raw,
                  shap_values, base_value, e, history >>

\* Variant of ShowResult: the verdict is computed but nothing is drawn before
\* the explanation is computed.
ShowResult_Deferred ==
  /\ pc = "result"
  /\ probability_responder' = Idx(predicted_proba, 1) * 100
  /\ LET v == Verdict(probability_responder') IN
       /\ result_text' = v.result_text
       /\ color_code' = v.color_code
       /\ advice' = v.advice
  /\ pc' = "scale"
  /\ UNCHANGED << env, clicked, screen, outcome, model, user_inputs, input_df,
                  predicted_proba, rf_classifier, scaler, input_scaled, explainer,
                  shap_values_raw, shap_values, base_value, e, history >>

\* Lines 125-156: the verdict, the text figure with its coloured border, the
\* advice and the heading of the explanation section.
ShowResult ==
  /\ pc = "result"
  /\ probability_responder' = Idx(predicted_proba, 1) * 100
  /\ LET v == Verdict(probability_responder') IN
       /\ result_text' = v.result_text
       /\ color_code' = v.color_code
       /\ advice' = v.advice
  /\ screen' = screen \o
       << Element("result", << Format2f(probability_responder'), result_text',
                               color_code' >>),
          Element("advice", << advice' >>),
          Element("subheader", << 3 >>) >>
  /\ pc' = "scale"
  /\ UNCHANGED << env, clicked, outcome, model, user_inputs, input_df,
                  predicted_proba, rf_classifier, scaler, input_scaled, explainer,
                  shap_values_raw, shap_values, base_value, e, history >>

\* ------------------------------------------- step C: explanation (156-189)
\* model.named_steps[name]
named_steps(pipeline, name) == CHOOSE step \in Range(pipeline) : step.name = name

\* Variant of ScaleInput: scaler.fit_transform(input_df) refits the
\* pipeline's scaler on the request's row.
ScaleInput_Refit ==
  /\ pc = "scale"
  /\ rf_classifier' = named_steps(model, "classifier")
  /\ scaler' = [named_steps(model, "scaler") EXCEPT !.data_min = Row0(input_df)]
  /\ model' = [ k \in 1..Len(model) |->
                 IF model[k].name = "scaler" THEN scaler' ELSE model[k] ]
  /\ input_scaled' = Transform(scaler', input_df)
  /\ calls' = Append(calls, Call("transform", scaler'.id, input_df, input_scaled'))
  /\ pc' = "shap"
  /\ UNCHANGED << env, clicked, screen, outcome, user_inputs, input_df,
                  predicted_proba, probability_responder, result_text, color_code,
                  advice, explainer, shap_values_raw, shap_values, base_value, e,
                  loads, failedLoads, reports >>

\* Variant of ScaleInput: the record is scaled by a scaler obtained apart
\* from the pipeline (a second file, or a scaler fitted on the spot).
ScaleInput_SecondScaler ==
  /\ pc = "scale"
  /\ rf_classifier' = named_steps(model, "classifier")
  /\ scaler' = [name |-> "scaler", id |-> 0 - 1,
                data_min |-> [ j \in 1..NumFeatures |-> 0 ]]
  /\ input_scaled' = Transform(scaler', input_df)
  /\ calls' = Append(calls, Call("transform", scaler'.id, input_df, input_scaled'))
  /\ pc' = "shap"
  /\ UNCHANGED << env, clicked, screen, outcome, model, user_inputs, input_df,
                  predicted_proba, probability_responder, result_text, color_code,
                  advice, explainer, shap_values_raw, shap_values, base_value, e,
                  loads, failedLoads, reports >>

\* Lines 159-163 returned: the two components are taken from the loaded
\* pipeline and the record is scaled by that scaler.
ScaleInput ==
  /\ pc = "scale"
  /\ rf_classifier' = named_steps(model, "classifier")
  /\ scaler' = named_steps(model, "scaler")
  /\ input_scaled' = Transform(scaler', input_df)
  /\ calls' = Append(calls, Call("transform", scaler'.id, input_df, input_scaled'))
  /\ pc' = "shap"
  /\ UNCHANGED << env, clicked, screen, outcome, model, user_inputs, input_df,
                  predicted_proba, probability_responder, result_text, color_code,
                  advice, explainer, shap_values_raw, shap_values, base_value, e,
                  loads, failedLoads, reports >>

\* scaler.transform(input_df) raised (163).
ScaleRaises ==
  /\ pc = "scale"
  /\ rf_classifier' = named_steps(model, "classifier")
  /\ scaler' = named_steps(model, "scaler")
  /\ \E detail \in ExcDetails :
       /\ e' = detail
       /\ calls' = Append(calls, Raise("transform", scaler'.id, input_df, detail))
  /\ pc' = "except"
  /\ UNCHANGED << env, clicked, screen, outcome, model, user_inputs, input_df,
                  predicted_proba, probability_responder, result_text, color_code,
                  advice, input_scaled, explainer, shap_values_raw, shap_values,
                  base_value, loads, failedLoads, reports >>

\* shap.TreeExplainer(classifier): a new explainer of that object; its
\* expected_value holds one baseline per class, numerators over PScale.
TreeExplainer(classifier) ==
  [model |-> classifier, expected_value |-> << PHalf - 1, PHalf + 1 >>]

\* explainer.shap_values on the one scaled row: per-class attributions,
\* <<class 0, class 1>>, one value per column.  The values of a class add up,
\* with that class's baseline, to the classifier's output for the class
\* (column j contributes j, the last column the remainder); those of class 0
\* mirror those of class 1.
Attributions(proba, expected_value) ==
  LET rest == (NumFeatures * (NumFeatures - 1)) \div 2
      phi1 == [ j \in 1..NumFeatures |->
                  IF j < NumFeatures THEN j ELSE proba[2] - expected_value[2] - rest ]
  IN  << [ j \in 1..NumFeatures |-> 0 - phi1[j] ], phi1 >>

\* The two layouts explainer.shap_values returns, by shap version: a list with
\* one (samples x features) array per class, or one
\* (samples x features x classes) array.
PerClassList(phi) == [ c \in 1..Len(phi) |-> << phi[c] >> ]

SingleArray(phi) ==
  << [ j \in 1..Len(phi[1]) |-> [ c \in 1..Len(phi) |-> phi[c][j] ] ] >>

\* Lines 166-167 returned.
ShapValues ==
  /\ pc = "shap"
  /\ explainer' = TreeExplainer(rf_classifier)
  /\ \E isList \in BOOLEAN :
     LET phi == Attributions(predicted_proba, explainer'.expected_value) IN
       /\ shap_values_raw' =
            [isList |-> isList,
             data |-> IF isList THEN PerClassList(phi) ELSE SingleArray(phi)]
       /\ calls' = calls \o
            << Call("TreeExplainer", rf_classifier.id, <<>>, <<>>),
               Call("shap_values", explainer'.model.id, input_scaled, phi) >>
  /\ pc' = "select"
  /\ UNCHANGED << env, clicked, screen, outcome, model, user_inputs, input_df,
                  predicted_proba, probability_responder, result_text, color_code,
                  advice, rf_classifier, scaler, input_scaled, shap_values,
                  base_value, e, loads, failedLoads, reports >>

\* explainer.shap_values raised (167).
ShapRaises ==
  /\ pc = "shap"
  /\ explainer' = TreeExplainer(rf_classifier)
  /\ \E detail \in ExcDetails :
       /\ e' = detail
       /\ calls' = calls \o
            << Call("TreeExplainer", rf_classifier.id, <<>>, <<>>),
               Raise("shap_values", explainer'.model.id, input_scaled, detail) >>
  /\ pc' = "except"
  /\ UNCHANGED << env, clicked, screen, outcome, model, user_inputs, input_df,
                  predicted_proba, probability_responder, result_text, color_code,
                  advice, rf_classifier, scaler, input_scaled, shap_values_raw,
                  shap_values, base_value, loads, failedLoads, reports >>

\* Variant of SelectClass1: index 0, the non-responder class.
SelectClass0(raw) ==
  IF raw.isList
    THEN Idx(raw.data, 0)
    ELSE [ s \in 1..Len(raw.data) |->
             [ j \in 1..Len(raw.data[s]) |-> Idx(raw.data[s][j], 0) ] ]

\* Lines 170-175: the class 1 attributions, as (samples x features).
\* shap_values_raw[1] on the list, shap_values_raw[:,:,1] on the array.
SelectClass1(raw) ==
  IF raw.isList
    THEN Idx(raw.data, 1)
    ELSE [ s \in 1..Len(raw.data) |->
             [ j \in 1..Len(raw.data[s]) |-> Idx(raw.data[s][j], 1) ] ]

\* explainer.expected_value[1] (172, 175)
SelectBase(expected_value) == Idx(expected_value, 1)

\* The chart of shap.force_plot(base_value, shap_values[0], input_df.iloc[0],
\* feature_names=input_df.columns): per bar the feature's name, its value
\* and its contribution (179-187).
ForcePlot(base, contributions, row, feature_names) ==
  Element("chart",
          << base,
             [ j \in 1..Len(contributions) |->
                 << feature_names[j], row[j], contributions[j] >> ] >>)

\* Lines 170-189 returned: the script ends.
Plot ==
  /\ pc = "select"
  /\ shap_values' = SelectClass1(shap_values_raw)
  /\ base_value' = SelectBase(explainer.expected_value)
  /\ calls' = Append(calls, Call("force_plot", 0, Idx(shap_values', 0), <<>>))
  /\ screen' = screen \o
       << ForcePlot(base_value', Idx(shap_values', 0), Row0(input_df),
                    Columns(input_df)),
          Element("caption", <<>>) >>
  /\ outcome' = "completed"
  /\ pc' = "idle"
  /\ UNCHANGED << env, clicked, model, user_inputs, input_df, predicted_proba,
                  probability_responder, result_text, color_code, advice,
                  rf_classifier, scaler, input_scaled, explainer, shap_values_raw,
                  e, loads, failedLoads, reports >>

\* shap.force_plot or st.pyplot raised (179-188).
PlotRaises ==
  /\ pc = "select"
  /\ shap_values' = SelectClass1(shap_values_raw)
  /\ base_value' = SelectBase(explainer.expected_value)
  /\ \E detail \in ExcDetails :
       /\ e' = detail
       /\ calls' = Append(calls, Raise("force_plot", 0, Idx(shap_values', 0), detail))
  /\ pc' = "except"
  /\ UNCHANGED << env, clicked, screen, outcome, model, user_inputs, input_df,
                  predicted_proba, probability_responder, result_text, color_code,
                  advice, rf_classifier, scaler, input_scaled, explainer,
                  shap_values_raw, loads, failedLoads, reports >>

\* -------------------------------------------- except Exception (191-193)
\* st.error(f"... {e}")
ErrorMessage(exception) == << "an error occurred: ", exception >>

\* Variant of HandleException: a fixed message in place of the exception's.
HandleException_Generic ==
  /\ pc = "except"
  /\ screen' = screen \o << Element("error", ErrorMessage("prediction failed")),
                            Element("warning", <<>>) >>
  /\ reports' = reports + 1
  /\ outcome' = "completed"
  /\ pc' = "idle"
  /\ UNCHANGED << env, clicked, names, calls, loads, failedLoads >>

\* The handler shows the error with the exception's text, then the hint;
\* the script ends normally.
HandleException ==
  /\ pc = "except"
  /\ screen' = screen \o << Element("error", ErrorMessage(e)),
                            Element("warning", <<>>) >>
  /\ reports' = reports + 1
  /\ outcome' = "completed"
  /\ pc' = "idle"
  /\ UNCHANGED << env, clicked, names, calls, loads, failedLoads >>

\* ------------------------------------------------------------------- spec
Next ==
  \/ OpenPage
  \/ EditWidget
  \/ ClickPredict
  \/ LoadModel
  \/ LoadModelNotFound
  \/ LoadModelCorrupt
  \/ CollectInputs
  \/ ButtonIdle
  \/ ButtonClicked
  \/ Predict
  \/ PredictRaises
  \/ ShowResult
  \/ ScaleInput
  \/ ScaleRaises
  \/ ShapValues
  \/ ShapRaises
  \/ Plot
  \/ PlotRaises
  \/ HandleException

Spec == Init /\ [][Next]_vars

\* ================================================================ claims
\* Indices of the calls of this run made to fn.
CallsTo(fn) == { k \in 1..Len(calls) : calls[k].fn = fn }

\* Calls of this run, after the model load, that raised.
RaisedCalls == { k \in 1..Len(calls) : calls[k].fn # "joblib.load" /\ calls[k].raised # "" }

LoadFailed == \E k \in CallsTo("joblib.load") : calls[k].raised # ""

PredictRaised == \E k \in CallsTo("Pipeline.predict_proba") : calls[k].raised # ""

ExplainRaised ==
  \E k \in RaisedCalls : calls[k].fn \in { "transform", "shap_values", "force_plot" }

\* The explanation step has made its first library call (163).
ExplainStarted == Cardinality(CallsTo("transform")) = 2

Positions(kind) == { k \in 1..Len(screen) : screen[k].kind = kind }

\* The seven features in Feature Schema order.
SchemaOrder ==
  << "BMI", "Biologics_History", "Baseline_PASI", "Hemoglobin", "ALP", "IBil", "SII" >>

\* What the user asked for in this run: the page's one action control is the
\* Predict button (118).
Asked == IF clicked THEN { "predict" } ELSE {}

\* ---- C1 ----------------------------------------------------------------
\* C1: once the verdict is computed, it is Responder exactly when the class 1
\* probability is strictly above 0.5 and Non-Responder otherwise (also at
\* exactly 0.5); colour and advice match the verdict, and exactly one result
\* is drawn, carrying that verdict and colour.
C1_VerdictIffAboveHalf ==
  /\ Shown("result") => result_text # ""
  /\ result_text # "" =>
       LET p1 == predicted_proba[2] IN
       /\ result_text \in { "Responder", "Non-Responder" }
       /\ (result_text = "Responder") <=> (2 * p1 > PScale)
       /\ (result_text = "Non-Responder") <=> (2 * p1 <= PScale)
       /\ (result_text = "Responder") <=> (color_code = "#2ca02c")
       /\ (result_text = "Non-Responder") <=> (color_code = "#d62728")
       /\ (result_text = "Responder") <=> (advice = "likely to respond well")
       /\ Cardinality(Positions("result")) = 1
       /\ Cardinality(Positions("advice")) = 1
       /\ \A k \in Positions("result") :
            /\ screen[k].data[2] = result_text
            /\ screen[k].data[3] = color_code
       /\ \A k \in Positions("advice") : screen[k].data = << advice >>

\* A prediction of exactly 0.5 got the verdict Non-Responder.
C1_Witness ==
  /\ predicted_proba = << PHalf, PHalf >>
  /\ result_text = "Non-Responder"
  /\ Shown("result")

\* ---- C2 ----------------------------------------------------------------
\* C2 as stated: whenever the user's last entry is outside the schema and the
\* page has settled, a ValidationError naming the feature is shown, no record
\* exists and no prediction has been produced.
C2_InvalidEntryRaisesValidationError ==
  (pc = "idle" /\ entry # <<>> /\ ~WithinSchema(entry[1], entry[2])) =>
    /\ \E k \in Positions("error") : screen[k].data = << "ValidationError", entry[1] >>
    /\ user_inputs = <<>>
    /\ predicted_proba = <<>>

\* C2 amended: the bounded widgets never hold a value outside the schema, so
\* no error is raised for an entry they do not accept; every collected
\* record is complete, and every record handed to predict_proba or to the
\* scaler has each value within its feature's bounds or options.
C2_RecordWithinSchema ==
  /\ \A feature \in FeatureNames : WithinSchema(feature, session[feature])
  /\ user_inputs # <<>> =>
       /\ Len(user_inputs) = NumFeatures
       /\ \A j \in 1..Len(user_inputs) :
            WithinSchema(user_inputs[j][1], user_inputs[j][2])
  /\ \A k \in CallsTo("Pipeline.predict_proba") \cup CallsTo("transform") :
       /\ Len(calls[k].arg) = NumFeatures
       /\ \A j \in 1..Len(calls[k].arg) :
            WithinSchema(calls[k].arg[j][1], calls[k].arg[j][2])
  /\ \A k \in Positions("error") : screen[k].data[1] # "ValidationError"

\* After BMI = 9.9 was typed, a prediction was made on a record within bounds.
C2_Witness ==
  /\ entry = << "BMI", 99 >>
  /\ predicted_proba # <<>>
  /\ Shown("result")

\* ---- C3 ----------------------------------------------------------------
\* C3 as stated: once a model load has failed, the process serves nothing:
\* no input form is shown, no predict step and no explain step runs.
C3_NothingServedAfterFailedLoad ==
  failedLoads > 0 =>
    /\ ~Shown("sidebar")
    /\ CallsTo("Pipeline.predict_proba") = {}
    /\ CallsTo("shap_values") = {}

\* C3 amended: a failed load ends the script run, not the process: in the
\* run whose load failed one error (the message of line 18 for a missing
\* file, the uncaught exception for a damaged one) is the only thing shown,
\* nothing after the load is executed, and the run is over.
C3_FailedLoadEndsRun ==
  LoadFailed =>
    /\ pc = "idle"
    /\ outcome \in { "stopped", "uncaught" }
    /\ model = <<>>
    /\ Len(calls) = 1
    /\ Len(screen) = 1
    /\ screen[1].kind \in { "error", "exception" }
    /\ user_inputs = <<>>

\* A run stopped on the missing file.
C3_Witness ==
  /\ LoadFailed
  /\ outcome = "stopped"
  /\ Shown("error")

\* ---- C4 ----------------------------------------------------------------
\* C4 as stated: the explainer is invoked only when the caller asked for an
\* explanation.
C4_ExplainOnlyWhenAsked ==
  CallsTo("shap_values") # {} => "explain" \in Asked

\* C4 amended: the explanation is part of every prediction: it starts only in
\* a run of the Predict button, after the result was shown, and every
\* finished run that showed a result has started it, ending with the chart
\* or with the error of the explanation step.
C4_ExplainFollowsEveryPrediction ==
  /\ (ExplainStarted \/ CallsTo("shap_values") # {}) =>
       (clicked /\ Shown("result"))
  /\ (pc = "idle" /\ Shown("result")) =>
       /\ ExplainStarted
       /\ Shown("chart") \/ ExplainRaised

\* A finished Predict run shows the result and the chart.
C4_Witness ==
  /\ pc = "idle"
  /\ Asked = { "predict" }
  /\ Shown("result")
  /\ Shown("chart")

\* ---- C5 ----------------------------------------------------------------
\* C5: no library call of the predict branch is repeated within a run; a call
\* that raised is the last call of its run; the exception is the one the
\* handler holds, and when the run is over it ended normally with exactly
\* one error on the page, carrying the exception's own message, and with the
\* Predict button still on the page.
C5_ExceptionReportedNotRetried ==
  /\ \A fn \in { "Pipeline.predict_proba", "TreeExplainer", "shap_values",
                 "force_plot" } : Cardinality(CallsTo(fn)) <= 1
  /\ Cardinality(CallsTo("transform")) <= 2
  /\ \A k \in RaisedCalls :
       /\ k = Len(calls)
       /\ pc \in { "except", "idle" }
       /\ e = calls[k].raised
       /\ pc = "idle" =>
            /\ outcome = "completed"
            /\ Cardinality(Positions("error")) = 1
            /\ \A m \in Positions("error") :
                 /\ Len(screen[m].data) = 2
                 /\ screen[m].data[2] = calls[k].raised
            /\ Shown("button")

\* After an error was reported in an earlier run, a request is served.
C5_Witness ==
  /\ reports > 0
  /\ RaisedCalls = {}
  /\ Shown("chart")

\* ---- C6 ----------------------------------------------------------------
\* C6: the record handed to predict_proba and the record handed to the
\* scaler are the same record: the seven schema features in schema order,
\* each with the value of its own widget.
C6_RecordInSchemaOrder ==
  \A k \in CallsTo("Pipeline.predict_proba") \cup CallsTo("transform") :
    /\ Len(calls[k].arg) = 7
    /\ \A j \in 1..Len(calls[k].arg) :
         /\ calls[k].arg[j][1] = SchemaOrder[j]
         /\ calls[k].arg[j][2] = session[SchemaOrder[j]]
    /\ \A m \in CallsTo("Pipeline.predict_proba") \cup CallsTo("transform") :
         calls[m].arg = calls[k].arg

\* Predict and the scaler both got a record with an edited value.
C6_Witness ==
  /\ ExplainStarted
  /\ session # Defaults
  /\ input_scaled # <<>>

\* ---- C7 ----------------------------------------------------------------
\* C7: for either layout of the explainer's output, the selected
\* contributions are the class 1 attributions the explainer computed, seven
\* of them, column by column; the baseline is the class 1 baseline; and the
\* chart pairs each contribution with its own feature's name and value.
C7_Class1Contributions ==
  shap_values # <<>> =>
    \A k \in CallsTo("shap_values") :
      LET phi == calls[k].ret
          contributions == shap_values[1]
      IN  /\ Len(shap_values) = 1
          /\ Len(contributions) = 7
          /\ \A j \in 1..Len(contributions) : contributions[j] = phi[2][j]
          /\ base_value = explainer.expected_value[2]
          /\ \A m \in Positions("chart") :
               /\ screen[m].data[1] = explainer.expected_value[2]
               /\ Len(screen[m].data[2]) = 7
               /\ \A j \in 1..Len(screen[m].data[2]) :
                    screen[m].data[2][j] =
                      << SchemaOrder[j], session[SchemaOrder[j]], phi[2][j] >>

\* The chart was drawn from the single-array layout.
C7_Witness ==
  /\ shap_values # <<>>
  /\ ~shap_values_raw.isList
  /\ Shown("chart")

\* ---- C8 ----------------------------------------------------------------
\* C8 as stated: the model is loaded once for the whole process, never again.
C8_LoadedOncePerProcess == loads <= 1

\* C8 amended: every script run loads the model anew, once, and constructs
\* at most one explainer; the loaded model stays exactly as it was unpickled
\* through the collect, predict and explain steps of its run.
C8_LoadedOncePerRunAndUnchanged ==
  /\ Cardinality(CallsTo("joblib.load")) <= 1
  /\ Cardinality(CallsTo("TreeExplainer")) <= 1
  /\ pc \notin { "idle", "load" } => Cardinality(CallsTo("joblib.load")) = 1
  /\ loads + failedLoads = runs - (IF pc = "load" THEN 1 ELSE 0)
  /\ model # <<>> => model = Unpickle(loads - 1)
  /\ rf_classifier # NullStep => rf_classifier = Unpickle(loads - 1)[2]
  /\ scaler # NullStep => scaler = Unpickle(loads - 1)[1]

\* A second load of the model, in a run that constructed an explainer.
C8_Witness ==
  /\ loads = 2
  /\ CallsTo("TreeExplainer") # {}
  /\ pc = "idle"

\* ---- C9 ----------------------------------------------------------------
\* C9: every scaling of a run is done by one and the same scaler object, the
\* one the pipeline scales with inside predict_proba, with the same result;
\* the explainer is built on, and run against, the object that classified
\* inside predict_proba (not the pipeline), on that scaled vector.
C9_SameScalerClassifierOnly ==
  /\ \A k \in CallsTo("transform") : \A m \in CallsTo("transform") :
       /\ calls[k].by = calls[m].by
       /\ (calls[k].raised = "" /\ calls[m].raised = "") => calls[k].ret = calls[m].ret
  /\ \A k \in CallsTo("TreeExplainer") \cup CallsTo("shap_values") :
       /\ calls[k].by # 0
       /\ \A m \in CallsTo("predict_proba") : calls[k].by = calls[m].by
  /\ \A k \in CallsTo("shap_values") : \A m \in CallsTo("predict_proba") :
       calls[k].arg = calls[m].arg

\* The explainer ran on a scaled record.
C9_Witness ==
  /\ CallsTo("shap_values") # {}
  /\ \A k \in CallsTo("shap_values") : calls[k].raised = ""
  /\ session # Defaults

\* ---- C10 ---------------------------------------------------------------
\* C10: the result and the advice are on the page before the explanation
\* step starts; a finished run whose predict_proba raised shows no result,
\* no chart and one error; a finished run whose explanation raised shows
\* the result, then one error, and no chart.
C10_ResultBeforeExplanation ==
  /\ (ExplainStarted \/ pc \in { "scale", "shap", "select" }) =>
       (Shown("result") /\ Shown("advice"))
  /\ (pc = "idle" /\ PredictRaised) =>
       /\ ~Shown("result")
       /\ ~Shown("chart")
       /\ Cardinality(Positions("error")) = 1
  /\ (pc = "idle" /\ ExplainRaised) =>
       /\ Shown("result")
       /\ ~Shown("chart")
       /\ Cardinality(Positions("error")) = 1
       /\ \A k \in Positions("result") : \A m \in Positions("error") : k < m

\* The explanation raised after the result was shown.
C10_Witness ==
  /\ pc = "idle"
  /\ ExplainRaised
  /\ Shown("result")
  /\ Shown("error")

====
